---- MODULE Spec2Model ----
(***************************************************************************)
(* Model of backend/app.js: an Express service that stores latitude /      *)
(* longitude pairs in MongoDB through Mongoose.  The model covers the     *)
(* JSON body middleware, the two JSON routes, the static fallback, the     *)
(* storage connection events and the process level handlers (SIGTERM,      *)
(* uncaughtException, unhandledRejection).                                 *)
(*                                                                         *)
(* Node runs one callback at a time, so every action below is one          *)
(* callback run to completion: a route handler from the arrival of the     *)
(* request to its first await (or to its response), the continuation       *)
(* after the await, an event listener, a close callback.                   *)
(***************************************************************************)
EXTENDS Integers, Sequences, FiniteSets, TLC

(***************************************************************************)
(* Bounds of the model.                                                    *)
(***************************************************************************)
MaxConns == 2        \* connections open at the same time
MaxRequests == 2     \* requests received over a run of Spec
MaxRecords == 2      \* documents a run of Spec tries to save
MaxSigterm == 2      \* SIGTERM signals delivered over a run
MaxListRequests == 4 \* requests received over a run of SpecList
MaxListTies == 1     \* documents of SpecList stamped like an earlier one
MaxInputRecords == 1 \* documents a run of SpecInputs tries to save

(***************************************************************************)
(* Program constants.                                                      *)
(***************************************************************************)
MaxLatitude == 90    \* app.js:65
MaxLongitude == 180  \* app.js:71
ListLimit == 10      \* app.js:99

Conns == 1..MaxConns

(***************************************************************************)
(* JavaScript values a parsed JSON body can hold in a field.  A value is   *)
(* a record [t, n]: t is the kind, n the number it carries (0 when the     *)
(* kind carries none).                                                     *)
(*   undefined        the field is absent                                  *)
(*   null             null                                                 *)
(*   number           a finite number n                                    *)
(*   infinity         1e999 (n = 1) or -1e999 (n = -1): JSON.parse yields  *)
(*                    Infinity for a literal out of the double range       *)
(*   numeric string   the decimal text of n, e.g. "45"                     *)
(*   empty string     ""                                                   *)
(*   text string      a string that is no number, e.g. "abc" or "NaN"      *)
(*   infinity string  "Infinity" (n = 1) or "-Infinity" (n = -1)           *)
(*   boolean          false (n = 0) or true (n = 1)                        *)
(*   empty array      []                                                   *)
(*   array1           [n], an array of one finite number                   *)
(*   array            an array of two or more elements                     *)
(*   object           {}                                                   *)
(***************************************************************************)
JsVal(t, n) == [t |-> t, n |-> n]
Undefined == JsVal("undefined", 0)
Null == JsVal("null", 0)
Num(n) == JsVal("number", n)

(***************************************************************************)
(* JavaScript numbers: [k, n] with k "finite" (value n), "Infinity"        *)
(* (n = 1 or -1, the sign) or "NaN".                                       *)
(***************************************************************************)
Finite(n) == [k |-> "finite", n |-> n]
Infinite(s) == [k |-> "Infinity", n |-> s]
NaN == [k |-> "NaN", n |-> 0]

\* ToNumber of ECMAScript, which isFinite() and the operators < and > apply
\* to an operand that is not a number.
ToNumber(v) ==
    CASE v.t = "number" -> Finite(v.n)
      [] v.t = "infinity" -> Infinite(v.n)
      [] v.t = "numeric string" -> Finite(v.n)
      [] v.t = "empty string" -> Finite(0)
      [] v.t = "text string" -> NaN
      [] v.t = "infinity string" -> Infinite(v.n)
      [] v.t = "boolean" -> Finite(v.n)
      [] v.t = "null" -> Finite(0)
      [] v.t = "undefined" -> NaN
      [] v.t = "empty array" -> Finite(0)   \* [] -> "" -> 0
      [] v.t = "array1" -> Finite(v.n)      \* [5] -> "5" -> 5
      [] v.t = "array" -> NaN               \* [1,2] -> "1,2" -> NaN
      [] OTHER -> NaN                       \* {} -> "[object Object]" -> NaN

\* The global isFinite(v): ToNumber(v) is neither NaN nor an infinity.
isFinite(v) == ToNumber(v).k = "finite"

\* v < c and v > c for a number c: the operand is converted by ToNumber and
\* a comparison with NaN is false.
LessThan(v, c) ==
    LET x == ToNumber(v)
    IN  CASE x.k = "finite" -> x.n < c
          [] x.k = "Infinity" -> x.n < 0
          [] OTHER -> FALSE

GreaterThan(v, c) ==
    LET x == ToNumber(v)
    IN  CASE x.k = "finite" -> x.n > c
          [] x.k = "Infinity" -> x.n > 0
          [] OTHER -> FALSE

\* v == null: true of null and undefined only.
IsNullish(v) == v.t \in {"undefined", "null"}

(***************************************************************************)
(* Responses.  keys are the keys of the JSON body, text is the value of    *)
(* its error key (or of message for 201), list the array of a 200 of       *)
(* GET /locations.                                                         *)
(***************************************************************************)
Response(status, text, keys) == [status |-> status, text |-> text, keys |-> keys]
NoResponse == Response(0, "", {})

\* The validation of POST /send-location, lines 56-76: the 400 it answers,
\* or NoResponse when the request passes.
MissingFields(latitude, longitude) == IsNullish(latitude) \/ IsNullish(longitude)

InvalidLatitude(latitude) ==
    \/ ~isFinite(latitude)
    \/ LessThan(latitude, -MaxLatitude)
    \/ GreaterThan(latitude, MaxLatitude)

\* InvalidLongitude without its lower bound.
InvalidLongitudeNoLowerBound(longitude) ==
    \/ ~isFinite(longitude)
    \/ GreaterThan(longitude, MaxLongitude)

InvalidLongitude(longitude) ==
    \/ ~isFinite(longitude)
    \/ LessThan(longitude, -MaxLongitude)
    \/ GreaterThan(longitude, MaxLongitude)

\* Validate with the longitude checked before the latitude.
ValidateLongitudeFirst(latitude, longitude) ==
    IF MissingFields(latitude, longitude)
    THEN Response(400, "Missing required fields", {"error", "received"})
    ELSE IF InvalidLongitude(longitude)
    THEN Response(400, "Invalid longitude value", {"error", "received"})
    ELSE IF InvalidLatitude(latitude)
    THEN Response(400, "Invalid latitude value", {"error", "received"})
    ELSE NoResponse

Validate(latitude, longitude) ==
    IF MissingFields(latitude, longitude)
    THEN Response(400, "Missing required fields", {"error", "received"})
    ELSE IF InvalidLatitude(latitude)
    THEN Response(400, "Invalid latitude value", {"error", "received"})
    ELSE IF InvalidLongitude(longitude)
    THEN Response(400, "Invalid longitude value", {"error", "received"})
    ELSE NoResponse

(***************************************************************************)
(* The JSON body middleware (line 38) and the error middleware after it    *)
(* (lines 39-45).  A request body is "json" (it parses to an object),      *)
(* "malformed" (JSON.parse fails: the parser passes on a SyntaxError with  *)
(* status 400 and a body property) or "too large" (the parser passes on a  *)
(* PayloadTooLargeError, status 413, which is no SyntaxError).             *)
(***************************************************************************)
Bodies == {"json", "malformed", "too large"}

NoError == [raised |-> FALSE, syntax |-> FALSE, status |-> 0, hasBody |-> FALSE]

JsonParser(body) ==
    CASE body = "malformed" ->
           [raised |-> TRUE, syntax |-> TRUE, status |-> 400, hasBody |-> TRUE]
      [] body = "too large" ->
           [raised |-> TRUE, syntax |-> FALSE, status |-> 413, hasBody |-> FALSE]
      [] OTHER -> NoError

\* ErrorMiddlewareResponds looking for another status.
ErrorMiddlewareWrongStatus(err) == err.syntax /\ err.status = 422 /\ err.hasBody

\* Line 40: the error middleware answers 400 itself; otherwise it calls
\* next() without the error, and the request goes on to its route.
ErrorMiddlewareResponds(err) == err.syntax /\ err.status = 400 /\ err.hasBody

InvalidJson(body) ==
    LET err == JsonParser(body)
    IN  err.raised /\ ErrorMiddlewareResponds(err)

\* req.body as the route sees it after the parser gave up on the body and
\* the error middleware called next(): body-parser 1.x has set it to {},
\* body-parser 2.x leaves it undefined.
ReqBodies(body) == IF body = "too large" THEN {"object", "undefined"} ELSE {"object"}

(***************************************************************************)
(* The Location model (models/Location.js) and the collection behind it.   *)
(* A latitude and a longitude of type Number, both required and both       *)
(* range checked by the schema; createdAt is set when the document is      *)
(* constructed.                                                            *)
(***************************************************************************)
CastError == [k |-> "CastError", n |-> 0]
CastNull == [k |-> "null", n |-> 0]

\* Mongoose's cast of a value to a Number path.
castNumber(v) ==
    CASE v.t \in {"undefined", "null", "empty string"} -> CastNull
      [] v.t \in {"numeric string", "boolean", "number"} -> Finite(v.n)
      [] v.t \in {"infinity", "infinity string"} -> Infinite(v.n)
      [] OTHER -> CastError   \* a text string, an array, a plain object

\* required, min and max of one path.
PathValid(x, max) == x.k = "finite" /\ x.n >= -max /\ x.n <= max

\* validate() as save() runs it on a new document.
DocumentValid(latitude, longitude) ==
    /\ PathValid(castNumber(latitude), MaxLatitude)
    /\ PathValid(castNumber(longitude), MaxLongitude)

Document(latitude, longitude, createdAt) ==
    [latitude |-> castNumber(latitude),
     longitude |-> castNumber(longitude),
     createdAt |-> createdAt]

(***************************************************************************)
(* State.                                                                  *)
(***************************************************************************)
VARIABLES
    exitCode,         \* -1 while the process runs, then the code of process.exit
    server,           \* the HTTP listener: binding, listening, failed, closing, closed
    connection,       \* mongoose.connection: disconnected, connected, closing, closed
    connecting,       \* the promise of mongoose.connect() is pending
    closeCallbacks,   \* callbacks of server.close() waiting for 'close'
    dbCloseCallbacks, \* callbacks of connection.close() not yet called
    conns,            \* the connections of the listener and their requests
    store,            \* the documents of the collection, in insertion order
    clock,            \* the latest Date.now() a document was stamped with
    requests,         \* requests received so far
    last              \* the last callback that ran, and the response it sent

vars == <<exitCode, server, connection, connecting, closeCallbacks,
          dbCloseCallbacks, conns, store, clock, requests, last>>

process == <<exitCode, server, connection, connecting, closeCallbacks,
             dbCloseCallbacks>>

Running == exitCode = -1

\* A connection: free (not open), idle (open, no request), saving (POST
\* awaiting save()), querying (GET awaiting find()), sending (the static
\* fallback awaiting the file).
Conn(st, latitude, longitude, createdAt) ==
    [st |-> st, latitude |-> latitude, longitude |-> longitude,
     createdAt |-> createdAt]
Free == Conn("free", Undefined, Undefined, 0)
Idle == Conn("idle", Undefined, Undefined, 0)

InFlight(c) == conns[c].st \in {"saving", "querying", "sending"}
Saving == {c \in Conns : conns[c].st = "saving"}

Event(ev) ==
    [ev |-> ev, conn |-> 0, body |-> "", latitude |-> Undefined,
     longitude |-> Undefined, response |-> NoResponse, list |-> <<>>,
     route |-> FALSE]

\* ev answered the request of connection c with response; route tells
\* whether the body of a route handler ran.
Answer(ev, c, body, latitude, longitude, response, list, route) ==
    [ev |-> ev, conn |-> c, body |-> body, latitude |-> latitude,
     longitude |-> longitude, response |-> response, list |-> list,
     route |-> route]

InvalidJsonResponse == Response(400, "Invalid JSON format", {"error"})

Init ==
    /\ exitCode = -1
    /\ server = "binding"
    /\ connection = "disconnected"
    /\ connecting = TRUE
    /\ closeCallbacks = 0
    /\ dbCloseCallbacks = 0
    /\ conns = [c \in Conns |-> Free]
    /\ store = <<>>
    /\ clock = 0
    /\ requests = 0
    /\ last = Event("start")

(***************************************************************************)
(* Start-up: app.listen (lines 120-126) and mongoose.connect (lines        *)
(* 11-17).                                                                 *)
(***************************************************************************)
\* The 'listening' callback, line 121.
ListenOk ==
    /\ Running /\ server = "binding"
    /\ server' = "listening"
    /\ last' = Event("ListenOk")
    /\ UNCHANGED <<exitCode, connection, connecting, closeCallbacks,
                   dbCloseCallbacks, conns, store, clock, requests>>

\* The 'error' listener of the server, lines 124-126: it only logs.
ListenError ==
    /\ Running /\ server = "binding"
    /\ server' = "failed"
    /\ last' = Event("ListenError")
    /\ UNCHANGED <<exitCode, connection, connecting, closeCallbacks,
                   dbCloseCallbacks, conns, store, clock, requests>>

\* process.exit(code): nothing runs afterwards.
Exit(ev, code) ==
    /\ exitCode' = code
    /\ last' = Event(ev)
    /\ UNCHANGED <<server, connection, connecting, closeCallbacks,
                   dbCloseCallbacks, conns, store, clock, requests>>

\* .then of mongoose.connect, line 13.
ConnectOk ==
    /\ Running /\ connecting
    /\ connecting' = FALSE
    /\ connection' = IF connection = "disconnected" THEN "connected" ELSE connection
    /\ last' = Event("ConnectOk")
    /\ UNCHANGED <<exitCode, server, closeCallbacks, dbCloseCallbacks, conns,
                   store, clock, requests>>

\* .catch of mongoose.connect, lines 14-17.
ConnectFail ==
    /\ Running /\ connecting
    /\ Exit("ConnectFail", 1)

\* The 'error' listener of the connection, lines 20-22: it only logs.
DbError ==
    /\ Running /\ ~connecting /\ connection \in {"connected", "disconnected"}
    /\ last' = Event("DbError")
    /\ UNCHANGED <<process, conns, store, clock, requests>>

\* DbDisconnected ending the process.
DbDisconnectedExits ==
    /\ Running /\ connection = "connected"
    /\ connection' = "disconnected"
    /\ exitCode' = 1
    /\ last' = Event("DbDisconnected")
    /\ UNCHANGED <<server, connecting, closeCallbacks, dbCloseCallbacks, conns,
                   store, clock, requests>>

\* The 'disconnected' listener of the connection, lines 24-26: it only logs.
DbDisconnected ==
    /\ Running /\ connection = "connected"
    /\ connection' = "disconnected"
    /\ last' = Event("DbDisconnected")
    /\ UNCHANGED <<exitCode, server, connecting, closeCallbacks,
                   dbCloseCallbacks, conns, store, clock, requests>>

\* The driver reconnects by itself; the program listens to no event of it.
DbReconnected ==
    /\ Running /\ ~connecting /\ connection = "disconnected"
    /\ connection' = "connected"
    /\ last' = Event("DbReconnected")
    /\ UNCHANGED <<exitCode, server, connecting, closeCallbacks,
                   dbCloseCallbacks, conns, store, clock, requests>>

(***************************************************************************)
(* Connections of the listener.  A listening server accepts connections;   *)
(* a connection is kept alive between requests and carries one request at  *)
(* a time.  A new connection takes the first free place: which place it   *)
(* takes changes nothing.                                                  *)
(***************************************************************************)
Accept(c) ==
    /\ Running /\ server = "listening" /\ conns[c].st = "free"
    /\ \A d \in Conns : d < c => conns[d].st # "free"
    /\ conns' = [conns EXCEPT ![c] = Idle]
    /\ last' = Event("Accept")
    /\ UNCHANGED <<process, store, clock, requests>>

\* The client ends an idle connection, or the keep-alive timeout does.
ConnClose(c) ==
    /\ Running /\ conns[c].st = "idle"
    /\ conns' = [conns EXCEPT ![c] = Free]
    /\ last' = Event("ConnClose")
    /\ UNCHANGED <<process, store, clock, requests>>

\* The response of connection c is sent: the connection is idle again.
Respond(c, answer) ==
    /\ last' = answer
    /\ conns' = [conns EXCEPT ![c] = Idle]

(***************************************************************************)
(* POST /send-location, lines 51-94.                                       *)
(***************************************************************************)
Attempts == Len(store) + Cardinality(Saving)

\* The catch block of the route, lines 87-93.
PostCatch == Response(500, "Internal server error", {"error", "message"})

\* From the arrival of the request to the await of line 80.  reqBody is
\* what req.body holds, createdAt the Date.now() of the new document, cap
\* the number of documents the run may try to save.
PostArrive(c, body, latitude, longitude, reqBody, createdAt, cap) ==
    /\ Running /\ conns[c].st = "idle"
    /\ body = "json" \/ (latitude = Undefined /\ longitude = Undefined)
    /\ requests' = requests + 1
    /\ UNCHANGED <<process, store>>
    /\ IF InvalidJson(body)
       THEN /\ Respond(c, Answer("PostArrive", c, body, latitude, longitude,
                                 InvalidJsonResponse, <<>>, FALSE))
            /\ clock' = clock
       ELSE IF reqBody = "undefined"
       THEN \* line 53 throws a TypeError, which the catch block answers
            /\ Respond(c, Answer("PostArrive", c, body, latitude, longitude,
                                 PostCatch, <<>>, TRUE))
            /\ clock' = clock
       ELSE IF Validate(latitude, longitude) # NoResponse
       THEN /\ Respond(c, Answer("PostArrive", c, body, latitude, longitude,
                                 Validate(latitude, longitude), <<>>, TRUE))
            /\ clock' = clock
       ELSE /\ Attempts < cap
            /\ conns' = [conns EXCEPT ![c] =
                            Conn("saving", latitude, longitude, createdAt)]
            /\ clock' = createdAt
            /\ last' = Answer("PostArrive", c, body, latitude, longitude,
                              NoResponse, <<>>, TRUE)

\* save() resolves, lines 80-86: the document is in the collection.
SaveOk(c) ==
    /\ Running /\ conns[c].st = "saving"
    /\ connection = "connected"
    /\ DocumentValid(conns[c].latitude, conns[c].longitude)
    /\ store' = Append(store, Document(conns[c].latitude, conns[c].longitude,
                                       conns[c].createdAt))
    /\ Respond(c, Answer("SaveOk", c, "json", conns[c].latitude,
                         conns[c].longitude,
                         Response(201, "Location saved successfully",
                                  {"message", "location"}), <<>>, TRUE))
    /\ UNCHANGED <<process, clock, requests>>

\* SaveFail answering 500 for a save that reached the collection.
SaveFailAfterInsert(c) ==
    /\ Running /\ conns[c].st = "saving"
    /\ connection = "connected"
    /\ DocumentValid(conns[c].latitude, conns[c].longitude)
    /\ store' = Append(store, Document(conns[c].latitude, conns[c].longitude,
                                       conns[c].createdAt))
    /\ Respond(c, Answer("SaveFail", c, "json", conns[c].latitude,
                         conns[c].longitude, PostCatch, <<>>, TRUE))
    /\ UNCHANGED <<process, clock, requests>>

\* SaveFail without the catch block: the rejection is unhandled and the
\* handler of line 146 ends the process.
SaveFailUncaught(c) ==
    /\ Running /\ conns[c].st = "saving"
    /\ exitCode' = 1
    /\ last' = Answer("SaveFail", c, "json", conns[c].latitude,
                      conns[c].longitude, NoResponse, <<>>, TRUE)
    /\ UNCHANGED <<server, connection, connecting, closeCallbacks,
                   dbCloseCallbacks, conns, store, clock, requests>>

\* save() rejects (validation, a write error, no connection within the
\* buffering timeout) and the catch block answers, lines 87-93.
SaveFail(c) ==
    /\ Running /\ conns[c].st = "saving"
    /\ Respond(c, Answer("SaveFail", c, "json", conns[c].latitude,
                         conns[c].longitude, PostCatch, <<>>, TRUE))
    /\ UNCHANGED <<process, store, clock, requests>>

(***************************************************************************)
(* GET /locations, lines 97-109.                                           *)
(***************************************************************************)
Min(a, b) == IF a < b THEN a ELSE b

\* The position in docs, among those of S, of the document .sort("-createdAt")
\* puts first.  MongoDB leaves the order of equal keys open: newestFirst
\* tells whether the later insertion wins a tie, or the earlier one.
First(docs, S, newestFirst) ==
    CHOOSE i \in S : \A j \in S \ {i} :
        \/ docs[i].createdAt > docs[j].createdAt
        \/ /\ docs[i].createdAt = docs[j].createdAt
           /\ IF newestFirst THEN i > j ELSE i < j

RECURSIVE SortDesc(_, _, _)
SortDesc(docs, S, newestFirst) ==
    IF S = {} THEN <<>>
    ELSE LET i == First(docs, S, newestFirst)
         IN  <<docs[i]>> \o SortDesc(docs, S \ {i}, newestFirst)

\* FindRecent in the order of insertion, latest first.
FindRecentByInsertion(docs, newestFirst) ==
    [i \in 1..Min(ListLimit, Len(docs)) |-> docs[Len(docs) + 1 - i]]

\* Location.find().sort("-createdAt").limit(10), line 99.
FindRecent(docs, newestFirst) ==
    LET sorted == SortDesc(docs, DOMAIN docs, newestFirst)
    IN  SubSeq(sorted, 1, Min(ListLimit, Len(sorted)))

GetArrive(c, body) ==
    /\ Running /\ conns[c].st = "idle"
    /\ requests' = requests + 1
    /\ UNCHANGED <<process, store, clock>>
    /\ IF InvalidJson(body)
       THEN Respond(c, Answer("GetArrive", c, body, Undefined, Undefined,
                              InvalidJsonResponse, <<>>, FALSE))
       ELSE /\ conns' = [conns EXCEPT ![c] = Conn("querying", Undefined, Undefined, 0)]
            /\ last' = Answer("GetArrive", c, body, Undefined, Undefined,
                              NoResponse, <<>>, TRUE)

\* The query resolves, lines 99-101.
GetOk(c, newestFirst) ==
    /\ Running /\ conns[c].st = "querying"
    /\ connection = "connected"
    /\ Respond(c, Answer("GetOk", c, "", Undefined, Undefined,
                         Response(200, "", {}), FindRecent(store, newestFirst),
                         TRUE))
    /\ UNCHANGED <<process, store, clock, requests>>

\* The query rejects and the catch block answers, lines 102-108.
GetFail(c) ==
    /\ Running /\ conns[c].st = "querying"
    /\ Respond(c, Answer("GetFail", c, "", Undefined, Undefined,
                         Response(500, "Error fetching locations",
                                  {"error", "message"}), <<>>, TRUE))
    /\ UNCHANGED <<process, store, clock, requests>>

(***************************************************************************)
(* The static fallback, lines 112-117.                                     *)
(***************************************************************************)
StaticArrive(c, body) ==
    /\ Running /\ conns[c].st = "idle"
    /\ requests' = requests + 1
    /\ UNCHANGED <<process, store, clock>>
    /\ IF InvalidJson(body)
       THEN Respond(c, Answer("StaticArrive", c, body, Undefined, Undefined,
                              InvalidJsonResponse, <<>>, FALSE))
       ELSE /\ conns' = [conns EXCEPT ![c] = Conn("sending", Undefined, Undefined, 0)]
            /\ last' = Answer("StaticArrive", c, body, Undefined, Undefined,
                              NoResponse, <<>>, TRUE)

\* The file, or index.html, is sent.
StaticDone(c) ==
    /\ Running /\ conns[c].st = "sending"
    /\ Respond(c, Answer("StaticDone", c, "", Undefined, Undefined,
                         Response(200, "", {}), <<>>, TRUE))
    /\ UNCHANGED <<process, store, clock, requests>>

(***************************************************************************)
(* Process handlers, lines 129-149.                                        *)
(***************************************************************************)
\* Sigterm closing the storage connection beside the server, not in the
\* callback of server.close.
SigtermCloseNow(closeIdle) ==
    /\ Running /\ server # "binding"
    /\ closeCallbacks + dbCloseCallbacks < MaxSigterm
    /\ server' = IF server = "listening" THEN "closing" ELSE server
    /\ connection' = IF connection = "closed" THEN "closed" ELSE "closing"
    /\ dbCloseCallbacks' = dbCloseCallbacks + 1
    /\ conns' = IF closeIdle
                THEN [c \in Conns |-> IF conns[c].st = "idle" THEN Free ELSE conns[c]]
                ELSE conns
    /\ last' = Event("Sigterm")
    /\ UNCHANGED <<exitCode, connecting, closeCallbacks, store, clock, requests>>

\* The SIGTERM handler, lines 129-131: server.close(callback).  The server
\* stops listening; Node 19 and later also end the idle connections here
\* (closeIdle), earlier versions leave them to their timeout.
Sigterm(closeIdle) ==
    /\ Running /\ server # "binding"
    /\ closeCallbacks + dbCloseCallbacks < MaxSigterm
    /\ server' = IF server = "listening" THEN "closing" ELSE server
    /\ closeCallbacks' = closeCallbacks + 1
    /\ conns' = IF closeIdle
                THEN [c \in Conns |-> IF conns[c].st = "idle" THEN Free ELSE conns[c]]
                ELSE conns
    /\ last' = Event("Sigterm")
    /\ UNCHANGED <<exitCode, connection, connecting, dbCloseCallbacks, store,
                   clock, requests>>

\* 'close' of the server, once it listens no more and its last connection
\* has ended: every callback of line 131 runs and calls
\* mongoose.connection.close(false, callback), line 132.
ServerClosed ==
    /\ Running /\ server \in {"closing", "closed", "failed"}
    /\ closeCallbacks > 0
    /\ \A c \in Conns : conns[c].st = "free"
    /\ server' = IF server = "closing" THEN "closed" ELSE server
    /\ connection' = IF connection = "closed" THEN "closed" ELSE "closing"
    /\ dbCloseCallbacks' = dbCloseCallbacks + closeCallbacks
    /\ closeCallbacks' = 0
    /\ last' = Event("ServerClosed")
    /\ UNCHANGED <<exitCode, connecting, conns, store, clock, requests>>

\* DbClosed without process.exit.
DbClosedNoExit ==
    /\ Running /\ dbCloseCallbacks > 0
    /\ connection' = "closed"
    /\ dbCloseCallbacks' = dbCloseCallbacks - 1
    /\ last' = Event("DbClosed")
    /\ UNCHANGED <<exitCode, server, connecting, closeCallbacks, conns, store,
                   clock, requests>>

\* The callback of connection.close, lines 133-134: process.exit(0).
DbClosed ==
    /\ Running /\ dbCloseCallbacks > 0
    /\ connection' = "closed"
    /\ exitCode' = 0
    /\ last' = Event("DbClosed")
    /\ UNCHANGED <<server, connecting, closeCallbacks, dbCloseCallbacks, conns,
                   store, clock, requests>>

\* UncaughtException shutting down like SIGTERM does.
UncaughtExceptionDrains ==
    /\ Running /\ server # "binding"
    /\ closeCallbacks + dbCloseCallbacks < MaxSigterm
    /\ server' = IF server = "listening" THEN "closing" ELSE server
    /\ closeCallbacks' = closeCallbacks + 1
    /\ last' = Event("UncaughtException")
    /\ UNCHANGED <<exitCode, connection, connecting, dbCloseCallbacks, conns,
                   store, clock, requests>>

\* Lines 140-143.
UncaughtException ==
    /\ Running
    /\ Exit("UncaughtException", 1)

\* Lines 146-149.
UnhandledRejection ==
    /\ Running
    /\ Exit("UnhandledRejection", 1)

(***************************************************************************)
(* The service as a whole.                                                 *)
(***************************************************************************)
\* Field values of the requests of Spec.  Latitudes: absent, valid, out of
\* range.  Longitudes: valid, out of range, and "", which the route lets
\* pass (isFinite("") holds) and the schema casts to null.
Latitudes == {Undefined, Num(0), Num(91)}
Longitudes == {Num(0), Num(181), JsVal("empty string", 0)}

\* The Date.now() of a new document: later than the latest stamp, or the
\* same millisecond.
Now == {clock + 1} \cup (IF clock > 0 THEN {clock} ELSE {})

\* The fields a body of each kind gives the route.
Fields(body, values) == IF body = "json" THEN values ELSE {Undefined}

Next ==
    \/ ListenOk
    \/ ListenError
    \/ ConnectOk
    \/ ConnectFail
    \/ DbError
    \/ DbDisconnected
    \/ DbReconnected
    \/ \E c \in Conns : Accept(c)
    \/ \E c \in Conns : ConnClose(c)
    \/ \E c \in Conns, body \in Bodies :
         \E latitude \in Fields(body, Latitudes), longitude \in Fields(body, Longitudes),
            reqBody \in ReqBodies(body), createdAt \in Now :
           /\ requests < MaxRequests
           /\ PostArrive(c, body, latitude, longitude, reqBody, createdAt, MaxRecords)
    \/ \E c \in Conns : SaveOk(c)
    \/ \E c \in Conns : SaveFail(c)
    \/ \E c \in Conns, body \in Bodies : requests < MaxRequests /\ GetArrive(c, body)
    \/ \E c \in Conns, newestFirst \in BOOLEAN : GetOk(c, newestFirst)
    \/ \E c \in Conns : GetFail(c)
    \/ \E c \in Conns, body \in Bodies : requests < MaxRequests /\ StaticArrive(c, body)
    \/ \E c \in Conns : StaticDone(c)
    \/ \E closeIdle \in BOOLEAN : Sigterm(closeIdle)
    \/ ServerClosed
    \/ DbClosed
    \/ UncaughtException
    \/ UnhandledRejection

Spec == Init /\ [][Next]_vars

(***************************************************************************)
(* The routes under every kind of field value.  The process is past its    *)
(* start-up: the server listens and the connection is established.         *)
(***************************************************************************)
AllCoordinates ==
    {Undefined, Null,
     Num(-181), Num(-180), Num(-91), Num(-90), Num(0), Num(90), Num(91),
     Num(180), Num(181),
     JsVal("infinity", 1), JsVal("infinity", -1),
     JsVal("numeric string", 45), JsVal("numeric string", 91),
     JsVal("empty string", 0), JsVal("text string", 0),
     JsVal("infinity string", 1),
     JsVal("boolean", 0), JsVal("boolean", 1),
     JsVal("empty array", 0), JsVal("array1", 5), JsVal("array1", 200),
     JsVal("array", 0), JsVal("object", 0)}

InitServing ==
    /\ exitCode = -1
    /\ server = "listening"
    /\ connection = "connected"
    /\ connecting = FALSE
    /\ closeCallbacks = 0
    /\ dbCloseCallbacks = 0
    /\ conns = [c \in Conns |-> Free]
    /\ store = <<>>
    /\ clock = 0
    /\ requests = 0
    /\ last = Event("ConnectOk")

\* The pairs of a run of SpecInputs: every value for one field beside a
\* missing value, a valid one, one out of range and "" for the other.
InputPairs ==
    (AllCoordinates \X {Null, Num(0), Num(-181), JsVal("empty string", 0)})
      \cup ({Undefined, Num(0), Num(91), JsVal("empty string", 0)} \X AllCoordinates)

BodyFields(body) == IF body = "json" THEN InputPairs ELSE {<<Undefined, Undefined>>}

NextInputs ==
    \/ Accept(1)
    \/ \E body \in Bodies :
         \E pair \in BodyFields(body), reqBody \in ReqBodies(body) :
           /\ requests < MaxRequests
           /\ PostArrive(1, body, pair[1], pair[2], reqBody, clock + 1, MaxInputRecords)
    \/ SaveOk(1)
    \/ SaveFail(1)
    \/ \E body \in Bodies : requests < MaxRequests /\ GetArrive(1, body)
    \/ \E newestFirst \in BOOLEAN : GetOk(1, newestFirst)
    \/ GetFail(1)

SpecInputs == InitServing /\ [][NextInputs]_vars

(***************************************************************************)
(* GET /locations over a collection that outgrows the limit of the query.  *)
(* Every POST is valid and every storage call succeeds.  A run starts      *)
(* with an empty collection, or with one that earlier POSTs, one after     *)
(* the other, have filled to one document below the limit; the first two   *)
(* of these may carry the same stamp (tie).                                *)
(***************************************************************************)
Stamp(i, tie) == IF tie /\ i > 1 THEN i - 1 ELSE i

Stored(n, tie) == [i \in 1..n |-> Document(Num(i), Num(0), Stamp(i, tie))]

\* Documents stamped with a Date.now() an earlier document already has.
\* In a run of SpecList every document is valid and the clock moves only
\* when a document takes a new stamp.
Ties == Attempts - clock

Stamps == IF Ties < MaxListTies THEN Now ELSE {clock + 1}

NextList ==
    \/ \E c \in Conns, createdAt \in Stamps :
         /\ requests < MaxListRequests
         /\ PostArrive(c, "json", Num(0), Num(0), "object", createdAt,
                       Attempts + 1)
    \/ \E c \in Conns : SaveOk(c)
    \/ \E c \in Conns :
         /\ requests < MaxListRequests
         /\ GetArrive(c, "json")
    \/ \E c \in Conns, newestFirst \in BOOLEAN : GetOk(c, newestFirst)

\* The connections of the run are open from the start.
InitList ==
    /\ exitCode = -1
    /\ server = "listening"
    /\ connection = "connected"
    /\ connecting = FALSE
    /\ closeCallbacks = 0
    /\ dbCloseCallbacks = 0
    /\ conns = [c \in Conns |-> Idle]
    /\ \E n \in {0, ListLimit - 1}, tie \in BOOLEAN :
         /\ tie => n > 1
         /\ store = Stored(n, tie)
         /\ clock = Stamp(n, tie)
    /\ requests = 0
    /\ last = Event("Accept")

SpecList == InitList /\ [][NextList]_vars

(***************************************************************************)
(* Fairness: Node calls a callback whose event has happened, every         *)
(* awaited storage call settles (Mongoose gives up on a buffered call      *)
(* after its timeout), and an idle connection ends (the keep-alive         *)
(* timeout of the server).  One of these steps is taken whenever one       *)
(* stays possible.                                                         *)
(***************************************************************************)
Settle ==
    \/ ServerClosed
    \/ DbClosed
    \/ \E c \in Conns : SaveOk(c) \/ SaveFail(c)
    \/ \E c \in Conns : GetOk(c, TRUE) \/ GetFail(c)
    \/ \E c \in Conns : StaticDone(c)
    \/ \E c \in Conns : ConnClose(c)

Fairness == WF_vars(Settle)

SpecLive == Spec /\ Fairness

(***************************************************************************)
(* Properties.                                                             *)
(***************************************************************************)
\* A coordinate that is not a finite number of [-max, max].
OutOfDomain(v, max) ==
    LET x == ToNumber(v)
    IN  x.k # "finite" \/ x.n < -max \/ x.n > max

Absent(v) == v.t = "undefined" \/ v.t = "null"

PostEvents == {"PostArrive", "SaveOk", "SaveFail"}

\* C1: every stored document has a finite latitude in [-90, 90] and a finite
\* longitude in [-180, 180]; a POST whose body carries a coordinate that is
\* not finite or out of range is answered 400, and no save of it is pending.
C1_StoredInRange ==
    /\ \A i \in DOMAIN store :
         /\ store[i].latitude.k = "finite"
         /\ store[i].latitude.n >= -90 /\ store[i].latitude.n <= 90
         /\ store[i].longitude.k = "finite"
         /\ store[i].longitude.n >= -180 /\ store[i].longitude.n <= 180
    /\ \A c \in Saving :
         ~OutOfDomain(conns[c].latitude, 90) /\ ~OutOfDomain(conns[c].longitude, 180)
    /\ (/\ last.ev \in PostEvents
        /\ last.body = "json"
        /\ OutOfDomain(last.latitude, 90) \/ OutOfDomain(last.longitude, 180))
       => last.response.status = 400

\* A POST with an infinite longitude has been answered 400 while a document
\* is stored.
C1_Witness ==
    /\ last.ev = "PostArrive"
    /\ last.latitude = Num(0)
    /\ last.longitude = JsVal("infinity", 1)
    /\ last.response.status = 400
    /\ Len(store) = 1

\* C2: the validation of POST /send-location answers the first check that
\* fails, in the order missing fields, latitude, longitude, and save() is
\* called only when the three checks pass.
C2_ValidationOrder ==
    /\ (last.ev = "PostArrive" /\ last.body = "json") =>
         LET missing == Absent(last.latitude) \/ Absent(last.longitude)
             badLat == OutOfDomain(last.latitude, 90)
             badLon == OutOfDomain(last.longitude, 180)
         IN  /\ missing =>
                  /\ last.response.status = 400
                  /\ last.response.text = "Missing required fields"
             /\ (~missing /\ badLat) =>
                  /\ last.response.status = 400
                  /\ last.response.text = "Invalid latitude value"
             /\ (~missing /\ ~badLat /\ badLon) =>
                  /\ last.response.status = 400
                  /\ last.response.text = "Invalid longitude value"
             /\ (~missing /\ ~badLat /\ ~badLon) =>
                  /\ last.response = NoResponse
                  /\ conns[last.conn].st = "saving"
    /\ \A c \in Saving :
         /\ ~Absent(conns[c].latitude) /\ ~Absent(conns[c].longitude)
         /\ ~OutOfDomain(conns[c].latitude, 90)
         /\ ~OutOfDomain(conns[c].longitude, 180)
    /\ last.ev \in {"SaveOk", "SaveFail"} =>
         /\ ~Absent(last.latitude) /\ ~Absent(last.longitude)
         /\ ~OutOfDomain(last.latitude, 90)
         /\ ~OutOfDomain(last.longitude, 180)

\* Latitude and longitude are both out of range: the latitude is reported.
C2_Witness ==
    /\ last.ev = "PostArrive"
    /\ last.latitude = Num(91)
    /\ last.longitude = Num(-181)
    /\ last.response.text = "Invalid latitude value"

\* A response with this status is sent in the step.
Answers(status) == last' # last /\ last'.response.status = status

\* C3: a step changes the collection exactly when it answers a POST with
\* 201, and then it appends one document and keeps the others as they are.
C3_CreatedOncePer201 ==
    [][/\ (store' # store) <=> (Answers(201) /\ last'.ev = "SaveOk")
       /\ (store' # store) =>
            /\ Len(store') = Len(store) + 1
            /\ SubSeq(store', 1, Len(store)) = store]_vars

\* A second document has been stored behind the first.
C3_Witness == last.ev = "SaveOk" /\ Len(store) = 2

\* How often the sequence docs holds the document d.
Count(docs, d) == Cardinality({i \in DOMAIN docs : docs[i] = d})

\* C4: a 200 of GET /locations lists min(10, n) of the n stored documents,
\* ordered by descending createdAt, none twice, and no stored document left
\* out is newer than a listed one.
C4_RecentTen ==
    last.ev = "GetOk" =>
      LET list == last.list
      IN  /\ last.response.status = 200
          /\ Len(list) = Min(10, Len(store))
          /\ \A i, j \in DOMAIN list :
               i < j => list[i].createdAt >= list[j].createdAt
          /\ \A i \in DOMAIN list : Count(list, list[i]) <= Count(store, list[i])
          /\ \A i \in DOMAIN list :
               Cardinality({j \in DOMAIN store : store[j].createdAt > list[i].createdAt})
                 = Cardinality({j \in DOMAIN list : list[j].createdAt > list[i].createdAt})

\* Eleven documents, the last two stored in another order than they were
\* stamped, the oldest two with the same stamp, and a list of ten that
\* leaves out the first.
C4_Witness ==
    /\ last.ev = "GetOk"
    /\ Len(store) = 11
    /\ Len(last.list) = 10
    /\ store[1].createdAt = store[2].createdAt
    /\ last.list[10] = store[2]
    /\ \E i, j \in DOMAIN store : i < j /\ store[i].createdAt > store[j].createdAt

\* C5: the storage connection is closed only once the server listens no
\* more and no connection is left, the process exits with 0 only once the
\* storage connection is closed, a server that is closing accepts no
\* connection, and neither the server nor the connection goes back.
C5_ShutdownOrder ==
    /\ [](/\ connection \in {"closing", "closed"} =>
               /\ server \in {"closed", "failed"}
               /\ \A c \in Conns : conns[c].st = "free"
          /\ exitCode = 0 =>
               /\ connection = "closed"
               /\ server \in {"closed", "failed"})
    /\ [][/\ (server = "listening" /\ last'.ev = "Sigterm") =>
               /\ server' = "closing"
               /\ connection' = connection
               /\ exitCode' = -1
          /\ server \in {"closing", "closed"} =>
               /\ server' \in {"closing", "closed"}
               /\ \A c \in Conns : conns[c].st = "free" => conns'[c].st = "free"
          /\ server = "closed" => server' = "closed"
          /\ connection = "closing" => connection' \in {"closing", "closed"}
          /\ connection = "closed" => connection' = "closed"]_vars

\* The process has left with 0 after it served requests.
C5_Witness ==
    /\ exitCode = 0
    /\ server = "closed"
    /\ connection = "closed"
    /\ requests = MaxRequests

\* C6: a storage call that fails is answered 500 with the keys error and
\* message, and the step leaves the process running and the server as it
\* was, with the connection of the request ready for the next one.
C6_StorageFailure ==
    /\ [](last.ev \in {"SaveFail", "GetFail"} =>
            /\ last.response.status = 500
            /\ last.response.keys = {"error", "message"})
    /\ [][last'.ev \in {"SaveFail", "GetFail"} /\ last' # last =>
            /\ exitCode' = -1
            /\ server' = server
            /\ conns'[last'.conn].st = "idle"]_vars

\* A save failed while the storage was disconnected.
C6_Witness ==
    /\ last.ev = "SaveFail"
    /\ connection = "disconnected"
    /\ last.response.status = 500
    /\ exitCode = -1

FatalEvents == {"UncaughtException", "UnhandledRejection"}

\* C7: the failure of the first connection attempt exits with 1, no other
\* event of the storage connection ends the process, and an 'error' or a
\* 'disconnected' of the connection leaves the process and the server as
\* they were.
C7_OnlyInitialConnectIsFatal ==
    /\ [](/\ last.ev = "ConnectFail" => exitCode = 1
          /\ exitCode = 1 => last.ev \in FatalEvents \cup {"ConnectFail"})
    /\ [][/\ last'.ev \in {"DbError", "DbDisconnected", "DbReconnected"} =>
               /\ exitCode' = exitCode
               /\ server' = server
          /\ (connection = "connected" /\ connection' = "disconnected") =>
               /\ exitCode' = -1
               /\ server' = server
          /\ exitCode' = 1 /\ exitCode = -1 /\ last'.ev = "ConnectFail" => connecting]_vars

\* The connection is lost while the server listens.
C7_Witness ==
    /\ last.ev = "DbDisconnected"
    /\ server = "listening"
    /\ exitCode = -1

\* C8: an uncaught exception or an unhandled rejection exits with 1 at
\* once: the step changes neither the server, nor its connections, nor the
\* storage connection, nor the pending close callbacks.
C8_FailFast ==
    /\ [](last.ev \in FatalEvents => exitCode = 1)
    /\ [][last'.ev \in FatalEvents /\ exitCode = -1 =>
            /\ exitCode' = 1
            /\ server' = server
            /\ connection' = connection
            /\ closeCallbacks' = closeCallbacks
            /\ dbCloseCallbacks' = dbCloseCallbacks
            /\ conns' = conns]_vars

\* An uncaught exception while the server drains a request.
C8_Witness ==
    /\ last.ev = "UncaughtException"
    /\ server = "closing"
    /\ \E c \in Conns : InFlight(c)
    /\ connection = "connected"

\* C9: a request whose body does not parse is answered 400 "Invalid JSON
\* format" before its route runs; the step leaves the collection and the
\* pending saves as they were, and no request is left in flight on the
\* connection.
C9_MalformedJson ==
    /\ [](last.body = "malformed" =>
            /\ last.response = Response(400, "Invalid JSON format", {"error"})
            /\ ~last.route)
    /\ [][last'.body = "malformed" /\ requests' # requests =>
            /\ store' = store
            /\ Attempts' = Attempts
            /\ conns'[last'.conn].st = "idle"]_vars

\* A POST with a malformed body has been answered.
C9_Witness ==
    /\ last.ev = "PostArrive"
    /\ last.body = "malformed"
    /\ last.response.status = 400

\* C10: once the server is closing, the process ends: with 0 and the
\* storage connection closed, or with 1 by a fatal error.
C10_ShutdownLive ==
    (server = "closing") ~>
        \/ exitCode = 0 /\ connection = "closed"
        \/ exitCode = 1 /\ last.ev \in FatalEvents \cup {"ConnectFail"}

\* The process has left with 0 after two SIGTERMs.
C10_Witness ==
    /\ exitCode = 0
    /\ last.ev = "DbClosed"
    /\ dbCloseCallbacks = 2

====
